---- MODULE Spec2Model ----
(***************************************************************************)
(* mini-svelte: a compiler from a component source (script + template) to  *)
(* a module with create/update/destroy and a change-batching runtime.      *)
(* The model covers the parser (parse), the analyser (analyse), the        *)
(* generator (generate) and the runtime the generator emits.               *)
(***************************************************************************)
EXTENDS Integers, Sequences, FiniteSets, TLC

VARIABLES
  \* ---- an instance of the generated module (the emitted factory) ----
  comp,            \* index of the compiled component in Components
  phase,           \* "module" | "instance" | "created" | "destroyed"
  vals,            \* the factory's let-variables: name -> value
  collectChanges,  \* let collectChanges = []
  updateCalled,    \* let updateCalled = false
  lifecycleDefined,\* var lifecycle is hoisted; assigned after the script body
  data,            \* binding -> text content of the text node it holds
  parentOf,        \* binding -> the node it is attached under ("none" if detached)
  listeners,       \* set of <<element binding, event, handler>>
  globalTarget,    \* what the free identifier `target` means on the host page
  log,             \* events of the last operation, in program order
  thrown,          \* the error the last operation raised ("" if none)
  clicks,          \* number of handler runs so far
  lastOp,          \* the operation the host ran last, and the handler it ran
  \* ---- parse(content) ----
  content,         \* the source text, one character per element
  i,               \* let i = 0: the read position (0-based)
  stack,           \* the open parseFragments calls, outermost first
  ppc,             \* where parse is: "fragments" | "fragment" | "returned" | "threw" | "looping"
  perror,          \* the message of the error parse threw
  document,        \* const ast = {}: the Document parse returns
  \* ---- generate: reactiveDeclarations.sort ----
  rds,             \* analysis.reactiveDeclarations as analyse leaves it
  sortedRds,       \* the same array after the generator's sort
  \* ---- generate.traverse case 'Expression' ----
  tplExpr,         \* node.expression of the template Expression node
  tplWillChange,   \* analysis.willChange
  genUpdate,       \* the code object (create, update, ...) traverse has filled
  \* ---- generate: the script rewrite pass ----
  rwBody,          \* the body of a handler of the script
  rwUsed,          \* the names the template reads
  rwOut            \* ast.script.body after the rewrite pass

rtVars == <<comp, phase, vals, collectChanges, updateCalled, lifecycleDefined,
            data, parentOf, listeners, globalTarget, log, thrown, clicks, lastOp>>
psVars == <<content, i, stack, ppc, perror, document>>
stVars == <<rds, sortedRds>>
cgVars == <<tplExpr, tplWillChange, genUpdate>>
rwVars == <<rwBody, rwUsed, rwOut>>
vars == <<rtVars, psVars, stVars, cgVars, rwVars>>

\* ------------------------------------------------------------------------
\* Bounds of the model
\* ------------------------------------------------------------------------
MaxClicks == 3

\* ------------------------------------------------------------------------
\* Sequences as JavaScript arrays
\* ------------------------------------------------------------------------
Range(s) == {s[k] : k \in 1..Len(s)}

includes(s, x) == \E k \in 1..Len(s) : s[k] = x

\* new Set(...) / Set.add: insertion order, no duplicates
SetAdd(s, x) == IF includes(s, x) THEN s ELSE Append(s, x)

RECURSIVE SetAddAll(_, _)
SetAddAll(s, xs) ==
  IF xs = <<>> THEN s ELSE SetAddAll(SetAdd(s, Head(xs)), Tail(xs))

RECURSIVE Concat(_)
Concat(ss) == IF ss = <<>> THEN <<>> ELSE Head(ss) \o Concat(Tail(ss))

\* ------------------------------------------------------------------------
\* JavaScript values: numbers, undefined, NaN
\* ------------------------------------------------------------------------
Num(n) == [k |-> "number", n |-> n]
Undefined == [k |-> "undefined", n |-> 0]
NaN == [k |-> "NaN", n |-> 0]

Digit == <<"0", "1", "2", "3", "4", "5", "6", "7", "8", "9">>

RECURSIVE Decimal(_)
Decimal(n) == IF n < 10 THEN Digit[n + 1] ELSE Decimal(n \div 10) \o Digit[(n % 10) + 1]

\* String(v): what createTextNode(v) and `node.data = v` store
String(v) ==
  CASE v.k = "undefined" -> "undefined"
    [] v.k = "NaN" -> "NaN"
    [] v.k = "object" -> "[object Event]"
    [] v.k = "node" -> "[object Node]"
    [] v.k = "function" -> "function"
    [] OTHER -> IF v.n < 0 THEN "-" \o Decimal(-v.n) ELSE Decimal(v.n)

BinaryOp(op, l, r) ==
  IF l.k # "number" \/ r.k # "number" THEN NaN
  ELSE CASE op = "+" -> Num(l.n + r.n)
         [] op = "-" -> Num(l.n - r.n)
         [] op = "*" -> Num(l.n * r.n)
         [] OTHER -> NaN

\* ------------------------------------------------------------------------
\* ESTree nodes (what acorn returns)
\* ------------------------------------------------------------------------
Lit(n) == [type |-> "Literal", value |-> Num(n)]
Id(x) == [type |-> "Identifier", name |-> x]
Bin(op, l, r) == [type |-> "BinaryExpression", operator |-> op, left |-> l, right |-> r]
Call(f, args) == [type |-> "CallExpression", callee |-> Id(f), arguments |-> args]
Member(o, p) == [type |-> "MemberExpression", object |-> o, property |-> Id(p)]
Cond(t, c, a) == [type |-> "ConditionalExpression", test |-> t, consequent |-> c, alternate |-> a]
Update(op, x) == [type |-> "UpdateExpression", operator |-> op, argument |-> Id(x)]
Assign(x, r) == [type |-> "AssignmentExpression", left |-> Id(x), right |-> r]
Sequence(es) == [type |-> "SequenceExpression", expressions |-> es]
Arrow(params, body) == [type |-> "ArrowFunctionExpression", params |-> params, body |-> body]
Let(x, init) == [type |-> "VariableDeclaration", name |-> x, init |-> init]
Statement(e) == [type |-> "ExpressionStatement", expression |-> e]
Reactive(x, r) ==
  [type |-> "LabeledStatement", label |-> "$", body |-> Statement(Assign(x, r))]

\* Template nodes (what parse returns in ast.html)
Element(name, attributes, children) ==
  [type |-> "Element", name |-> name, attributes |-> attributes, children |-> children]
Attribute(name, value) == [type |-> "Attribute", name |-> name, value |-> value]
Expression(e) == [type |-> "Expression", expression |-> e]
Text(value) == [type |-> "Text", value |-> value]

\* ------------------------------------------------------------------------
\* Tree walks (estree-walker) and scopes (periscopic)
\* ------------------------------------------------------------------------
\* The child nodes estreewalker.walk visits, in property order
Children(n) ==
  CASE n.type = "BinaryExpression" -> <<n.left, n.right>>
    [] n.type = "CallExpression" -> <<n.callee>> \o n.arguments
    [] n.type = "MemberExpression" -> <<n.object, n.property>>
    [] n.type = "ConditionalExpression" -> <<n.test, n.consequent, n.alternate>>
    [] n.type = "UpdateExpression" -> <<n.argument>>
    [] n.type = "AssignmentExpression" -> <<n.left, n.right>>
    [] n.type = "SequenceExpression" -> n.expressions
    [] n.type = "ArrowFunctionExpression" -> <<n.body>>
    [] n.type = "VariableDeclaration" -> <<n.init>>
    [] n.type = "ExpressionStatement" -> <<n.expression>>
    [] n.type = "LabeledStatement" -> <<n.body>>
    [] OTHER -> <<>>

\* estreewalker.walk(right, {enter(node) {if Identifier: push name}})
RECURSIVE Identifiers(_), IdentifiersAll(_)
Identifiers(n) ==
  (IF n.type = "Identifier" THEN <<n.name>> ELSE <<>>) \o IdentifiersAll(Children(n))
IdentifiersAll(ns) ==
  IF ns = <<>> THEN <<>> ELSE Identifiers(Head(ns)) \o IdentifiersAll(Tail(ns))

\* rootScope.declarations.keys()
RootDeclarations(body) ==
  {body[k].name : k \in {j \in 1..Len(body) : body[j].type = "VariableDeclaration"}}

\* scope.find_owner(name): scopes are the parameter lists of the enclosing
\* functions, innermost last; "root" is rootScope, "null" is no owner
find_owner(scopes, rootDecls, name) ==
  IF \E k \in 1..Len(scopes) : includes(scopes[k], name) THEN "function"
  ELSE IF name \in rootDecls THEN "root"
  ELSE "null"

\* `if (map.has(node)) currentScope = map.get(node)`: a function opens a scope
EnterScope(scopes, n) ==
  IF n.type = "ArrowFunctionExpression" THEN Append(scopes, n.params) ELSE scopes

\* The identifier references of the script that resolve to no declaration
\* (a member's property name is not a reference)
RECURSIVE References(_, _), ReferencesAll(_, _)
References(n, scopes) ==
  LET sc == EnterScope(scopes, n)
      kids == IF n.type = "MemberExpression" THEN <<n.object>> ELSE Children(n)
  IN (IF n.type = "Identifier" THEN <<[name |-> n.name, scopes |-> sc]>> ELSE <<>>)
       \o ReferencesAll(kids, sc)
ReferencesAll(ns, scopes) ==
  IF ns = <<>> THEN <<>>
  ELSE References(Head(ns), scopes) \o ReferencesAll(Tail(ns), scopes)

Globals(body) ==
  LET refs == ReferencesAll(body, <<>>)
  IN {refs[k].name : k \in {j \in 1..Len(refs) :
        find_owner(refs[j].scopes, RootDeclarations(body), refs[j].name) = "null"}}

\* The UpdateExpression / AssignmentExpression nodes in walk order, each with
\* the scope chain the walk has on entering it
RECURSIVE MutationSites(_, _), MutationSitesAll(_, _)
MutationSites(n, scopes) ==
  LET sc == EnterScope(scopes, n)
  IN (IF n.type \in {"UpdateExpression", "AssignmentExpression"}
      THEN <<[node |-> n, scopes |-> sc]>> ELSE <<>>)
       \o MutationSitesAll(Children(n), sc)
MutationSitesAll(ns, scopes) ==
  IF ns = <<>> THEN <<>>
  ELSE MutationSites(Head(ns), scopes) \o MutationSitesAll(Tail(ns), scopes)

\* periscopic.extract_names(node.argument | node.left)
TargetNames(node) ==
  LET t == IF node.type = "UpdateExpression" THEN node.argument ELSE node.left
  IN IF t.type = "Identifier" THEN <<t.name>> ELSE <<>>

\* ------------------------------------------------------------------------
\* extract_names
\* ------------------------------------------------------------------------
RECURSIVE extract_names(_)
extract_names(jsNode) ==
  CASE jsNode.type = "Identifier" -> <<jsNode.name>>
    [] jsNode.type = "BinaryExpression" ->
         extract_names(jsNode.left) \o extract_names(jsNode.right)
    [] OTHER -> <<>>

\* ------------------------------------------------------------------------
\* analyse(ast)
\* ------------------------------------------------------------------------
IsReactive(node) == node.type = "LabeledStatement" /\ node.label = "$"

\* ast.script.body.forEach((node, index) => ...): one record per `$:` node
RECURSIVE ReactiveDeclarations(_, _)
ReactiveDeclarations(body, k) ==
  IF k > Len(body) THEN <<>>
  ELSE (IF IsReactive(body[k])
        THEN <<[assignees |-> <<body[k].body.expression.left.name>>,
                dependencies |-> Identifiers(body[k].body.expression.right),
                node |-> body[k].body,
                index |-> k - 1]>>
        ELSE <<>>) \o ReactiveDeclarations(body, k + 1)

\* ast.script.body.filter((node) => !toRemove.has(node))
RECURSIVE WithoutReactive(_)
WithoutReactive(body) ==
  IF body = <<>> THEN <<>>
  ELSE (IF IsReactive(Head(body)) THEN <<>> ELSE <<Head(body)>>)
         \o WithoutReactive(Tail(body))

\* the willChange walk over the filtered script
RECURSIVE WillChangeWalk(_, _, _, _)
WillChangeWalk(sites, rootDecls, globals, acc) ==
  IF sites = <<>> THEN acc
  ELSE LET names == TargetNames(Head(sites).node)
           keep == SelectSeq(names, LAMBDA name :
                     \/ find_owner(Head(sites).scopes, rootDecls, name) = "root"
                     \/ name \in globals)
       IN WillChangeWalk(Tail(sites), rootDecls, globals, SetAddAll(acc, keep))

\* traverse(fragment) of analyse: the names the template uses
RECURSIVE TemplateNames(_), TemplateNamesAll(_)
TemplateNames(fragment) ==
  CASE fragment.type = "Element" ->
         TemplateNamesAll(fragment.children) \o TemplateNamesAll(fragment.attributes)
    [] fragment.type = "Attribute" ->
         IF fragment.value.type = "Identifier" THEN <<fragment.value.name>> ELSE <<>>
    [] fragment.type = "Expression" -> extract_names(fragment.expression)
    [] OTHER -> <<>>
TemplateNamesAll(fragments) ==
  IF fragments = <<>> THEN <<>>
  ELSE TemplateNames(Head(fragments)) \o TemplateNamesAll(Tail(fragments))

analyse(ast) ==
  LET rootDecls == RootDeclarations(ast.script)
      globals == Globals(ast.script)
      reactiveDeclarations == ReactiveDeclarations(ast.script, 1)
      assignees == Concat([k \in 1..Len(reactiveDeclarations) |->
                             reactiveDeclarations[k].assignees])
      body == WithoutReactive(ast.script)
  IN [variables |-> rootDecls,
      willChange |-> WillChangeWalk(MutationSitesAll(body, <<>>), rootDecls, globals,
                                    SetAddAll(<<>>, assignees)),
      willUseInTemplate |-> Range(TemplateNamesAll(ast.html)),
      reactiveDeclarations |-> reactiveDeclarations,
      script |-> body]

\* ------------------------------------------------------------------------
\* generate(ast, analysis): the template walk
\* ------------------------------------------------------------------------
EmptyCode == [counter |-> 1, variables |-> <<>>, create |-> <<>>,
              update |-> <<>>, destroy |-> <<>>]

\* `${name}_${counter}`
BindingName(name, counter) == name \o "_" \o Decimal(counter)

\* names.forEach: the names of the expression that are in willChange
Changes(names, willChange) ==
  SetAddAll(<<>>, SelectSeq(names, LAMBDA name : includes(willChange, name)))

\* case 'Expression' of generate's traverse: the update instructions it pushes
ExpressionUpdate(node, variableName, willChange) ==
  LET names == extract_names(node.expression)
  IN IF \E k \in 1..Len(names) : includes(willChange, names[k])
     THEN <<[names |-> Changes(names, willChange), var |-> variableName,
             expression |-> node.expression]>>
     ELSE <<>>

RECURSIVE traverse(_, _, _, _), traverseAll(_, _, _, _)
traverse(node, parent, code, willChange) ==
  CASE node.type = "Element" ->
         LET variableName == BindingName(node.name, code.counter)
             c1 == [code EXCEPT !.counter = @ + 1,
                      !.variables = Append(@, variableName),
                      !.create = Append(@, [op |-> "createElement",
                                            var |-> variableName, tag |-> node.name])]
             c2 == traverseAll(node.attributes, variableName, c1, willChange)
             c3 == traverseAll(node.children, variableName, c2, willChange)
         IN [c3 EXCEPT
               !.create = Append(@, [op |-> "appendChild", parent |-> parent,
                                     child |-> variableName]),
               !.destroy = Append(@, [op |-> "removeChild", parent |-> parent,
                                      child |-> variableName])]
    [] node.type = "Text" ->
         LET variableName == BindingName("txt", code.counter)
         IN [code EXCEPT !.counter = @ + 1,
               !.variables = Append(@, variableName),
               !.create = @ \o <<[op |-> "createTextNode", var |-> variableName,
                                  literal |-> TRUE, text |-> node.value,
                                  expression |-> Lit(0)],
                                 [op |-> "appendChild", parent |-> parent,
                                  child |-> variableName]>>]
    [] node.type = "Attribute" ->
         IF node.name[1] = "on:"
         THEN [code EXCEPT
                 !.create = Append(@, [op |-> "addEventListener", target |-> parent,
                                       event |-> node.name[2],
                                       handler |-> node.value.name]),
                 !.destroy = Append(@, [op |-> "removeEventListener", target |-> parent,
                                        event |-> node.name[2],
                                        handler |-> node.value.name])]
         ELSE code
    [] node.type = "Expression" ->
         LET variableName == BindingName("txt", code.counter)
         IN [code EXCEPT !.counter = @ + 1,
               !.variables = Append(@, variableName),
               !.create = @ \o <<[op |-> "createTextNode", var |-> variableName,
                                  literal |-> FALSE, text |-> "",
                                  expression |-> node.expression],
                                 [op |-> "appendChild", parent |-> parent,
                                  child |-> variableName]>>,
               !.update = @ \o ExpressionUpdate(node, variableName, willChange)]
    [] OTHER -> code
traverseAll(nodes, parent, code, willChange) ==
  IF nodes = <<>> THEN code
  ELSE traverseAll(Tail(nodes), parent,
                   traverse(Head(nodes), parent, code, willChange), willChange)

\* ------------------------------------------------------------------------
\* generate(ast, analysis): the script rewrite pass
\* ------------------------------------------------------------------------
\* the names of one mutation node that get a notification
NotifiedNames(node, scopes, analysis) ==
  SelectSeq(TargetNames(node), LAMBDA name :
    /\ find_owner(scopes, analysis.variables, name) = "root"
    /\ name \in analysis.willUseInTemplate)

\* acorn.parseExpressionAt(`update(${JSON.stringify(names)})`)
UpdateCall(names) == Call("update", <<[type |-> "ArrayExpression", elements |-> names]>>)

RECURSIVE Rewrite(_, _, _)
Rewrite(n, scopes, analysis) ==
  LET sc == EnterScope(scopes, n)
      R(m) == Rewrite(m, sc, analysis)
      isMutation == n.type \in {"UpdateExpression", "AssignmentExpression"}
      names == IF isMutation THEN NotifiedNames(n, sc, analysis) ELSE <<>>
  IN IF isMutation /\ Len(names) > 0
     THEN Sequence(<<n, UpdateCall(names)>>)      \* this.replace; this.skip
     ELSE CASE n.type = "BinaryExpression" ->
                 [n EXCEPT !.left = R(n.left), !.right = R(n.right)]
            [] n.type = "CallExpression" ->
                 [n EXCEPT !.arguments = [k \in 1..Len(n.arguments) |-> R(n.arguments[k])]]
            [] n.type = "MemberExpression" -> [n EXCEPT !.object = R(n.object)]
            [] n.type = "ConditionalExpression" ->
                 [n EXCEPT !.test = R(n.test), !.consequent = R(n.consequent),
                           !.alternate = R(n.alternate)]
            [] n.type = "AssignmentExpression" -> [n EXCEPT !.right = R(n.right)]
            [] n.type = "SequenceExpression" ->
                 [n EXCEPT !.expressions = [k \in 1..Len(n.expressions) |-> R(n.expressions[k])]]
            [] n.type = "ArrowFunctionExpression" -> [n EXCEPT !.body = R(n.body)]
            [] n.type = "VariableDeclaration" -> [n EXCEPT !.init = R(n.init)]
            [] n.type = "ExpressionStatement" -> [n EXCEPT !.expression = R(n.expression)]
            [] OTHER -> n

RewriteScript(body, analysis) == [k \in 1..Len(body) |-> Rewrite(body[k], <<>>, analysis)]

\* ------------------------------------------------------------------------
\* generate(ast, analysis): analysis.reactiveDeclarations.sort(comparator)
\* ------------------------------------------------------------------------
\* the comparator (rd1, rd2) => ...
compare(rd1, rd2) ==
  IF \E k \in 1..Len(rd1.assignees) : includes(rd2.dependencies, rd1.assignees[k])
  THEN -1
  ELSE IF \E k \in 1..Len(rd2.assignees) : includes(rd1.dependencies, rd2.assignees[k])
  THEN 1
  ELSE rd1.index - rd2.index

\* Array.prototype.sort as the engine that runs the compiler performs it on a
\* short array: the leading run is found (and reversed if it descends), the
\* remaining elements are placed by binary insertion.
RECURSIVE RunEnd(_, _, _)
RunEnd(a, descending, idx) ==
  IF idx > Len(a) THEN Len(a)
  ELSE LET order == compare(a[idx], a[idx - 1])
       IN IF (descending /\ order >= 0) \/ (~descending /\ order < 0)
          THEN idx - 1
          ELSE RunEnd(a, descending, idx + 1)

Reverse(a) == [k \in 1..Len(a) |-> a[Len(a) + 1 - k]]

RECURSIVE BinarySearch(_, _, _, _)
BinarySearch(a, pivot, left, right) ==
  IF left >= right THEN left
  ELSE LET mid == left + ((right - left) \div 2)
       IN IF compare(pivot, a[mid + 1]) < 0
          THEN BinarySearch(a, pivot, left, mid)
          ELSE BinarySearch(a, pivot, mid + 1, right)

RECURSIVE BinaryInsertionSort(_, _)
BinaryInsertionSort(a, start) ==
  IF start > Len(a) THEN a
  ELSE LET pivot == a[start]
           left == BinarySearch(a, pivot, 0, start - 1)
           placed == SubSeq(a, 1, left) \o <<pivot>> \o SubSeq(a, left + 1, start - 1)
                       \o SubSeq(a, start + 1, Len(a))
       IN BinaryInsertionSort(placed, start + 1)

sort(a) ==
  IF Len(a) < 2 THEN a
  ELSE LET descending == compare(a[2], a[1]) < 0
           runLength == RunEnd(a, descending, 3)
           run == IF descending
                  THEN Reverse(SubSeq(a, 1, runLength)) \o SubSeq(a, runLength + 1, Len(a))
                  ELSE a
       IN BinaryInsertionSort(run, runLength + 1)

\* ------------------------------------------------------------------------
\* generate(ast, analysis): the emitted module
\* ------------------------------------------------------------------------
generate(ast, analysis) ==
  LET code == traverseAll(ast.html, "target", EmptyCode, analysis.willChange)
      reactiveDeclarations == sort(analysis.reactiveDeclarations)
      assignees == Concat([k \in 1..Len(reactiveDeclarations) |->
                             reactiveDeclarations[k].assignees])
  IN [variables |-> code.variables \o assignees,
      script |-> RewriteScript(ast.script, analysis),
      willChange |-> analysis.willChange,
      reactiveDeclarations |-> reactiveDeclarations,
      create |-> code.create,
      update |-> code.update,
      destroy |-> code.destroy]

\* const analysis = analyse(ast); const js = generate(ast, analysis);
\* analyse has removed the `$:` statements from ast.script.body
compile(ast) ==
  LET analysis == analyse(ast)
  IN generate([ast EXCEPT !.script = analysis.script], analysis)

\* ------------------------------------------------------------------------
\* The emitted module at run time
\* ------------------------------------------------------------------------
\* More values the emitted code handles: DOM nodes, functions, the event
Node == [k |-> "node", n |-> 0]
Function == [k |-> "function", n |-> 0]
Event == [k |-> "object", n |-> 0]

Result(st, v) == [st |-> st, v |-> v]
Throw(st, error) == [st EXCEPT !.thrown = error]
Ok(st) == st.thrown = ""

Logged(st, ev, names, flag) ==
  [st EXCEPT !.log = Append(@, [ev |-> ev, names |-> names,
                                pending |-> st.collectChanges, flag |-> flag])]

\* identifier resolution: the parameters of the running function, then the
\* factory's variables
Local(st, name) == st.frames # <<>> /\ name \in DOMAIN st.frames[Len(st.frames)]
Bound(st, name) == Local(st, name) \/ name \in DOMAIN st.vals
Lookup(st, name) ==
  IF Local(st, name) THEN st.frames[Len(st.frames)][name] ELSE st.vals[name]
Store(st, name, v) ==
  IF Local(st, name)
  THEN Logged([st EXCEPT !.frames[Len(st.frames)][name] = v], "mutate", <<name>>, FALSE)
  ELSE Logged([st EXCEPT !.vals[name] = v], "mutate", <<name>>, TRUE)

Truthy(v) == v.k \in {"node", "function", "object"} \/ (v.k = "number" /\ v.n # 0)

\* `if (updateCalled) return;`
GuardHeld(st) == st.updateCalled

\* `[deps].some(name => collectChanges.includes(name))`
DependencyChanged(dependencies, changes) ==
  \E k \in 1..Len(dependencies) : includes(changes, dependencies[k])

\* the condition of an update instruction: `changed.includes('x')`, or
\* `["x","y"].some(name => changed.includes(name))`
UpdateCondition(names, changed) ==
  \E k \in 1..Len(names) : includes(changed, names[k])

\* `collectChanges = []; updateCalled = false;`
\* a variant of the end of a sweep that empties the pending collection but
\* leaves the guard set
EndOfSweepKeepGuard(st) ==
  [Logged(st, "clear", <<>>, TRUE) EXCEPT !.collectChanges = <<>>]

EndOfSweep(st) ==
  [Logged(st, "clear", <<>>, TRUE) EXCEPT !.collectChanges = <<>>, !.updateCalled = FALSE]

\* the declaration `const f = (...) => ...` of the script, if any
FunctionNode(p, f) ==
  p.script[CHOOSE k \in 1..Len(p.script) :
             /\ p.script[k].type = "VariableDeclaration"
             /\ p.script[k].name = f
             /\ p.script[k].init.type = "ArrowFunctionExpression"].init

ReadIdentifier(st, name) ==
  IF Bound(st, name) THEN Result(st, Lookup(st, name))
  ELSE Result(Throw(st, "ReferenceError"), Undefined)

\* x++ / x--: the new value is stored, the old one is the expression's value
PostfixUpdate(st, e, old) ==
  Result(Store(st, e.argument.name,
               BinaryOp(IF e.operator = "++" THEN "+" ELSE "-", old, Num(1))),
         IF old.k = "number" THEN old ELSE NaN)

UpdateIdentifier(st, e) ==
  IF Bound(st, e.argument.name) THEN PostfixUpdate(st, e, Lookup(st, e.argument.name))
  ELSE Result(Throw(st, "ReferenceError"), Undefined)

\* x = <right>, the right-hand side already evaluated to r
AssignIdentifier(name, r) ==
  IF ~Ok(r.st) THEN r
  ELSE IF ~Bound(r.st, name) THEN Result(Throw(r.st, "ReferenceError"), Undefined)
  ELSE Result(Store(r.st, name, r.v), r.v)

\* o.p, the object already evaluated to o
ReadMember(o) ==
  IF Ok(o.st) /\ o.v.k = "undefined" THEN Result(Throw(o.st, "TypeError"), Undefined)
  ELSE Result(o.st, Undefined)

\* l <op> r, both operands evaluated
Combine(op, lv, r) == Result(r.st, BinaryOp(op, lv, r.v))
WithFrames(r, frames) == Result([r.st EXCEPT !.frames = frames], r.v)

\* the parameters of a call f(arg): the first is arg, the others undefined
Frame(params, arg) ==
  [x \in Range(params) |-> IF params[1] = x THEN arg ELSE Undefined]

\* update(changed), first statement: changed.forEach(c => collectChanges.push(c))
Collect(st, changed) ==
  Logged([st EXCEPT !.collectChanges = @ \o changed], "notify", changed, GuardHeld(st))

\* `updateCalled = true;`
Lock(st) == [st EXCEPT !.updateCalled = TRUE]

\* the end of update(changed), unless an error has left it
Finish(st) == IF Ok(st) THEN EndOfSweep(st) ELSE st

\* `node.data = value`
SetData(r, var) ==
  IF ~Ok(r.st) THEN r.st
  ELSE IF Lookup(r.st, var).k # "node" THEN Throw(r.st, "TypeError")
  ELSE [r.st EXCEPT !.data[var] = String(r.v)]

RECURSIVE Eval(_, _, _), EvalRight(_, _, _), EvalBranch(_, _, _), EvalAll(_, _, _, _),
          EvalRest(_, _, _), CallFunction(_, _, _, _), update(_, _, _),
          update_reactive_declarations(_, _, _), ReactiveBlock(_, _, _),
          Patch(_, _), lifecycle_update(_, _, _)

\* evaluation of an expression of the emitted module: the state after it and
\* its value
Eval(p, st, e) ==
  IF ~Ok(st) THEN Result(st, Undefined)
  ELSE CASE e.type = "Literal" -> Result(st, e.value)
    [] e.type = "Identifier" -> ReadIdentifier(st, e.name)
    [] e.type = "BinaryExpression" -> EvalRight(p, e, Eval(p, st, e.left))
    [] e.type = "ConditionalExpression" -> EvalBranch(p, e, Eval(p, st, e.test))
    [] e.type = "MemberExpression" -> ReadMember(Eval(p, st, e.object))
    [] e.type = "UpdateExpression" -> UpdateIdentifier(st, e)
    [] e.type = "AssignmentExpression" ->
         AssignIdentifier(e.left.name, Eval(p, st, e.right))
    [] e.type = "SequenceExpression" -> EvalAll(p, st, e.expressions, Undefined)
    [] e.type = "ArrowFunctionExpression" -> Result(st, Function)
    [] e.type = "CallExpression" ->
         IF e.callee.name = "update"
         THEN Result(update(p, st, e.arguments[1].elements), Undefined)
         ELSE CallFunction(p, st, e.callee.name, Undefined)
    [] OTHER -> Result(st, Undefined)

\* left <op> right, the left operand already evaluated to l
EvalRight(p, e, l) == Combine(e.operator, l.v, Eval(p, l.st, e.right))

\* test ? consequent : alternate, the test already evaluated to t
EvalBranch(p, e, t) ==
  IF Truthy(t.v) THEN Eval(p, t.st, e.consequent) ELSE Eval(p, t.st, e.alternate)

\* the expressions of a sequence, left to right; the value of the last
EvalAll(p, st, es, last) ==
  IF es = <<>> \/ ~Ok(st) THEN Result(st, last)
  ELSE EvalRest(p, Eval(p, st, Head(es)), Tail(es))
EvalRest(p, r, es) == EvalAll(p, r.st, es, r.v)

\* a call f(arg) of a function the script declares
CallFunction(p, st, f, arg) ==
  IF ~Bound(st, f) THEN Result(Throw(st, "ReferenceError"), Undefined)
  ELSE IF Lookup(st, f).k # "function" THEN Result(Throw(st, "TypeError"), Undefined)
  ELSE WithFrames(Eval(p, [st EXCEPT !.frames =
                                 Append(@, Frame(FunctionNode(p, f).params, arg))],
                       FunctionNode(p, f).body),
                  st.frames)

\* function update(changed): the notification entry point
\* a variant of update that patches the DOM before recomputing the derived
\* statements
update_patch_first(p, st, changed) ==
  IF ~Ok(st) THEN st
  ELSE IF GuardHeld(st) THEN Collect(st, changed)
  ELSE Finish(update_reactive_declarations(p, Patch(p, Lock(Collect(st, changed))), 1))

update(p, st, changed) ==
  IF ~Ok(st) THEN st
  ELSE IF GuardHeld(st) THEN Collect(st, changed)
  ELSE Finish(Patch(p, update_reactive_declarations(p, Lock(Collect(st, changed)), 1)))

\* function update_reactive_declarations(): block k and the blocks after it
update_reactive_declarations(p, st, k) ==
  IF ~Ok(st) \/ k > Len(p.reactiveDeclarations) THEN st
  ELSE update_reactive_declarations(p, ReactiveBlock(p, st, p.reactiveDeclarations[k]),
                                    k + 1)

\* a variant of a derived block that patches the DOM itself right after its
\* body, as the handlers of the earlier generated module did
ReactiveBlockPatching(p, st, rd) ==
  IF DependencyChanged(rd.dependencies, st.collectChanges)
  THEN Patch(p, update(p, Eval(p, Logged(st, "block", rd.assignees, TRUE),
                               rd.node.expression).st,
                       rd.assignees))
  ELSE Logged(st, "block", rd.assignees, FALSE)

\* if ([deps].some(name => collectChanges.includes(name))) { body; update([assignees]) }
ReactiveBlock(p, st, rd) ==
  IF DependencyChanged(rd.dependencies, st.collectChanges)
  THEN update(p, Eval(p, Logged(st, "block", rd.assignees, TRUE), rd.node.expression).st,
              rd.assignees)
  ELSE Logged(st, "block", rd.assignees, FALSE)

\* `if (typeof lifecycle !== 'undefined') lifecycle.update(collectChanges);`
Patch(p, st) ==
  IF Ok(st) /\ st.lifecycleDefined
  THEN lifecycle_update(p, Logged(st, "patch", st.collectChanges, TRUE), 1)
  ELSE st

\* lifecycle.update(changed): instruction j and the instructions after it;
\* `changed` is the array collectChanges itself
lifecycle_update(p, st, j) ==
  IF ~Ok(st) \/ j > Len(p.update) THEN st
  ELSE lifecycle_update(p,
         IF UpdateCondition(p.update[j].names, st.collectChanges)
         THEN SetData(Eval(p, Logged(st, "instr", <<p.update[j].var>>, TRUE),
                           p.update[j].expression),
                      p.update[j].var)
         ELSE Logged(st, "instr", <<p.update[j].var>>, FALSE),
         j + 1)

\* `txt = document.createTextNode(value)`
CreateText(r, var) ==
  IF ~Ok(r.st) THEN r.st
  ELSE [r.st EXCEPT !.vals[var] = Node, !.data[var] = String(r.v)]

\* one instruction of lifecycle.create(target)
CreateInstruction(p, st, instr) ==
  CASE instr.op = "createElement" -> [st EXCEPT !.vals[instr.var] = Node]
    [] instr.op = "createTextNode" ->
         IF instr.literal
         THEN [st EXCEPT !.vals[instr.var] = Node, !.data[instr.var] = instr.text]
         ELSE CreateText(Eval(p, st, instr.expression), instr.var)
    [] instr.op = "appendChild" -> [st EXCEPT !.parentOf[instr.child] = instr.parent]
    [] instr.op = "addEventListener" ->
         IF ~Bound(st, instr.handler) THEN Throw(st, "ReferenceError")
         ELSE IF Lookup(st, instr.handler).k # "function" THEN st
         ELSE [st EXCEPT !.listeners =
                 @ \cup {<<instr.target, instr.event, instr.handler>>}]

\* lifecycle.create(target): instruction j and the instructions after it
RECURSIVE lifecycle_create(_, _, _)
lifecycle_create(p, st, j) ==
  IF ~Ok(st) \/ j > Len(p.create) THEN st
  ELSE lifecycle_create(p, CreateInstruction(p, st, p.create[j]), j + 1)

\* one instruction of lifecycle.destroy(). `target` is the parameter of
\* create, so in destroy it is a free identifier
DestroyInstruction(st, instr) ==
  CASE instr.op = "removeEventListener" ->
         IF ~Bound(st, instr.handler) THEN Throw(st, "ReferenceError")
         ELSE [st EXCEPT !.listeners =
                 @ \ {<<instr.target, instr.event, instr.handler>>}]
    [] instr.op = "removeChild" ->
         IF instr.parent = "target" /\ st.globalTarget = "undeclared"
         THEN Throw(st, "ReferenceError")
         ELSE IF st.parentOf[instr.child] # instr.parent
         THEN Throw(st, "NotFoundError")
         ELSE [st EXCEPT !.parentOf[instr.child] = "none"]

\* lifecycle.destroy(): instruction j and the instructions after it
RECURSIVE lifecycle_destroy(_, _, _)
lifecycle_destroy(p, st, j) ==
  IF ~Ok(st) \/ j > Len(p.destroy) THEN st
  ELSE lifecycle_destroy(p, DestroyInstruction(st, p.destroy[j]), j + 1)

\* `let x = <init>`, the initialiser already evaluated to r
Declare(name, r) == IF Ok(r.st) THEN [r.st EXCEPT !.vals[name] = r.v] ELSE r.st

\* the top-level statements of the (rewritten) script, in order
RECURSIVE RunScript(_, _, _)
RunScript(p, st, k) ==
  IF ~Ok(st) \/ k > Len(p.script) THEN st
  ELSE RunScript(p,
         IF p.script[k].type = "VariableDeclaration"
         THEN Declare(p.script[k].name, Eval(p, st, p.script[k].init))
         ELSE Eval(p, st, p.script[k].expression).st,
         k + 1)

\* the names the factory declares: `let ${v};` for code.variables, then the
\* declarations of the script body
DeclaredNames(p) ==
  p.variables \o SelectSeq([k \in 1..Len(p.script) |->
                              IF p.script[k].type = "VariableDeclaration"
                              THEN p.script[k].name ELSE ""],
                           LAMBDA x : x # "")

Distinct(names) == \A j, k \in 1..Len(names) : j # k => names[j] # names[k]

Fresh(p, host) ==
  [vals |-> [x \in Range(DeclaredNames(p)) |-> Undefined],
   frames |-> <<>>,
   collectChanges |-> <<>>,
   updateCalled |-> FALSE,
   lifecycleDefined |-> FALSE,
   data |-> [x \in Range(p.variables) |-> ""],
   parentOf |-> [x \in Range(p.variables) |-> "none"],
   listeners |-> {},
   globalTarget |-> host,
   log |-> <<>>,
   thrown |-> ""]

\* `var lifecycle = {...}; return lifecycle;`
DefineLifecycle(st) == IF Ok(st) THEN [st EXCEPT !.lifecycleDefined = TRUE] ELSE st

\* export default function() { ... }: the declarations, the script body, the
\* first update(willChange), then the lifecycle object
factory(p, host) ==
  IF ~Distinct(DeclaredNames(p)) THEN Throw(Fresh(p, host), "SyntaxError")
  ELSE DefineLifecycle(update(p, RunScript(p, Fresh(p, host), 1), p.willChange))

\* ------------------------------------------------------------------------
\* Component sources, as the ASTs parse returns for them
\* ------------------------------------------------------------------------
Button(handler, label) ==
  Element("button", <<Attribute(<<"on:", "click">>, Id(handler))>>, <<Text(label)>>)

\* let counter = 0; const increment = () => counter++; const decrement = ...
\* <button on:click={decrement}>Decrement</button>
\* <div>{counter} x 2 = {counter * 2}</div>
\* <button on:click={increment}>Increment</button>
Counter ==
  [script |-> <<Let("counter", Lit(0)),
                Let("increment", Arrow(<<>>, Update("++", "counter"))),
                Let("decrement", Arrow(<<>>, Update("--", "counter")))>>,
   html |-> <<Button("decrement", "Decrement"),
              Element("div", <<>>, <<Expression(Id("counter")), Text(" x 2 = "),
                                     Expression(Bin("*", Id("counter"), Lit(2)))>>),
              Button("increment", "Increment")>>]

\* let a = 1; $: b = a * 2; const inc = () => a++;
\* <button on:click={inc}>+</button>{b}
DerivedOnly ==
  [script |-> <<Let("a", Lit(1)), Reactive("b", Bin("*", Id("a"), Lit(2))),
                Let("inc", Arrow(<<>>, Update("++", "a")))>>,
   html |-> <<Button("inc", "+"), Expression(Id("b"))>>]

\* the same with a template that reads a too: <div>{a} x 2 = {b}</div>
DerivedBoth ==
  [script |-> DerivedOnly.script,
   html |-> <<Button("inc", "+"),
              Element("div", <<>>, <<Expression(Id("a")), Text(" x 2 = "),
                                     Expression(Id("b"))>>)>>]

\* let a = 1; $: b = a * 2;   with the template  Total: {b}
DerivedStatic ==
  [script |-> <<Let("a", Lit(1)), Reactive("b", Bin("*", Id("a"), Lit(2)))>>,
   html |-> <<Text("Total: "), Expression(Id("b"))>>]

\* let a = 0; let b = 0; const both = () => (a++, b++); const one = () => a = a + 1;
\* <button on:click={both}>both</button><button on:click={one}>one</button>{a}{b}{a + b}
Burst ==
  [script |-> <<Let("a", Lit(0)), Let("b", Lit(0)),
                Let("both", Arrow(<<>>, Sequence(<<Update("++", "a"), Update("++", "b")>>))),
                Let("one", Arrow(<<>>, Assign("a", Bin("+", Id("a"), Lit(1)))))>>,
   html |-> <<Button("both", "both"), Button("one", "one"),
              Expression(Id("a")), Expression(Id("b")),
              Expression(Bin("+", Id("a"), Id("b")))>>]

\* let a = 0; $: c = b + 1; $: b = a + 1; const inc = () => a++;
\* <button on:click={inc}>+</button><p>{a}{b}{c}</p>
Chain ==
  [script |-> <<Let("a", Lit(0)), Reactive("c", Bin("+", Id("b"), Lit(1))),
                Reactive("b", Bin("+", Id("a"), Lit(1))),
                Let("inc", Arrow(<<>>, Update("++", "a")))>>,
   html |-> <<Button("inc", "+"),
              Element("p", <<>>, <<Expression(Id("a")), Expression(Id("b")),
                                   Expression(Id("c"))>>)>>]

\* let m = 0; let n = 0; const bump = () => (n++, 0); const incM = () => m++;
\* <button on:click={incM}>+</button>{n}{m + bump()}
PatchNotifies ==
  [script |-> <<Let("m", Lit(0)), Let("n", Lit(0)),
                Let("bump", Arrow(<<>>, Sequence(<<Update("++", "n"), Lit(0)>>))),
                Let("incM", Arrow(<<>>, Update("++", "m")))>>,
   html |-> <<Button("incM", "+"), Expression(Id("n")),
              Expression(Bin("+", Id("m"), Call("bump", <<>>)))>>]

\* let a = 0; $: x = y + a; $: y = x + 1; const inc = () => a++;
\* <button on:click={inc}>+</button>{a}{x}{y}
Cycle ==
  [script |-> <<Let("a", Lit(0)), Reactive("x", Bin("+", Id("y"), Id("a"))),
                Reactive("y", Bin("+", Id("x"), Lit(1))),
                Let("inc", Arrow(<<>>, Update("++", "a")))>>,
   html |-> <<Button("inc", "+"), Expression(Id("a")), Expression(Id("x")),
              Expression(Id("y"))>>]

\* let n = 0; const boom = () => (n ? u : 0); const set = () => n = 1;
\* <button on:click={set}>+</button>{n + boom()}      (u is declared nowhere)
PatchThrows ==
  [script |-> <<Let("n", Lit(0)),
                Let("boom", Arrow(<<>>, Cond(Id("n"), Id("u"), Lit(0)))),
                Let("set", Arrow(<<>>, Assign("n", Lit(1))))>>,
   html |-> <<Button("set", "+"), Expression(Bin("+", Id("n"), Call("boom", <<>>)))>>]

\* let a = 1; $: b = a; $: b = a + 1;   with the template {b}
TwiceDerived ==
  [script |-> <<Let("a", Lit(1)), Reactive("b", Id("a")),
                Reactive("b", Bin("+", Id("a"), Lit(1)))>>,
   html |-> <<Expression(Id("b"))>>]

\* let a = 1; let b = 0; $: b = a * 2;   with the template {b}
DeclaredDerived ==
  [script |-> <<Let("a", Lit(1)), Let("b", Lit(0)),
                Reactive("b", Bin("*", Id("a"), Lit(2)))>>,
   html |-> <<Expression(Id("b"))>>]

Components ==
  <<Counter, DerivedOnly, DerivedBoth, DerivedStatic, Burst, Chain, PatchNotifies,
    Cycle, PatchThrows, TwiceDerived, DeclaredDerived>>

Programs == [c \in DOMAIN Components |-> compile(Components[c])]

\* ------------------------------------------------------------------------
\* A host page that loads the emitted module of one component
\* ------------------------------------------------------------------------
P == Programs[comp]

\* the state of the instance, as the emitted code sees it
State ==
  [vals |-> vals, frames |-> <<>>, collectChanges |-> collectChanges,
   updateCalled |-> updateCalled, lifecycleDefined |-> lifecycleDefined,
   data |-> data, parentOf |-> parentOf, listeners |-> listeners,
   globalTarget |-> globalTarget, log |-> <<>>, thrown |-> ""]

Becomes(st) ==
  /\ vals' = st.vals
  /\ collectChanges' = st.collectChanges
  /\ updateCalled' = st.updateCalled
  /\ lifecycleDefined' = st.lifecycleDefined
  /\ data' = st.data
  /\ parentOf' = st.parentOf
  /\ listeners' = st.listeners
  /\ log' = st.log
  /\ thrown' = st.thrown

\* no instance yet: nothing declared, nothing built
Unloaded ==
  /\ vals = <<>> /\ collectChanges = <<>> /\ updateCalled = FALSE
  /\ lifecycleDefined = FALSE /\ data = <<>> /\ parentOf = <<>>
  /\ listeners = {} /\ log = <<>> /\ thrown = "" /\ clicks = 0
  /\ lastOp = <<"load", "">>

\* the specifications of the compiler's passes run no instance
NoRuntime == comp = 0 /\ phase = "off" /\ globalTarget = "undeclared" /\ Unloaded

NoParse ==
  /\ content = <<>> /\ i = 0 /\ stack = <<>> /\ ppc = "off" /\ perror = ""
  /\ document = <<>>
NoSort == rds = <<>> /\ sortedRds = <<>>
NoGen == tplExpr = Lit(0) /\ tplWillChange = <<>> /\ genUpdate = EmptyCode
NoRewrite == rwBody = Lit(0) /\ rwUsed = <<>> /\ rwOut = <<>>

Init ==
  /\ comp \in DOMAIN Components
  /\ globalTarget \in {"undeclared", "mount"}
  /\ phase = "module"
  /\ Unloaded
  /\ NoParse /\ NoSort /\ NoGen /\ NoRewrite

\* const lifecycle = App()
Instantiate ==
  /\ phase = "module"
  /\ Becomes(factory(P, globalTarget))
  /\ phase' = IF thrown' = "SyntaxError" THEN "failed" ELSE "instance"
  /\ lastOp' = <<"factory", "">>
  /\ UNCHANGED <<comp, globalTarget, clicks, psVars, stVars, cgVars, rwVars>>

\* lifecycle.create(target)
Create ==
  /\ phase = "instance"
  /\ Becomes(lifecycle_create(P, State, 1))
  /\ phase' = "created"
  /\ lastOp' = <<"create", "">>
  /\ UNCHANGED <<comp, globalTarget, clicks, psVars, stVars, cgVars, rwVars>>

\* the user clicks an element: the listeners registered on it for 'click' run
Click(el, handler) ==
  /\ phase \in {"created", "destroyed"}
  /\ clicks < MaxClicks
  /\ <<el, "click", handler>> \in listeners
  /\ Becomes(CallFunction(P, State, handler, Event).st)
  /\ clicks' = clicks + 1
  /\ lastOp' = <<"click", handler>>
  /\ UNCHANGED <<comp, phase, globalTarget, psVars, stVars, cgVars, rwVars>>

\* lifecycle.destroy()
Destroy ==
  /\ phase = "created"
  /\ Becomes(lifecycle_destroy(P, State, 1))
  /\ phase' = "destroyed"
  /\ lastOp' = <<"destroy", "">>
  /\ UNCHANGED <<comp, globalTarget, clicks, psVars, stVars, cgVars, rwVars>>

Next ==
  \/ Instantiate
  \/ Create
  \/ \E el \in DOMAIN parentOf, handler \in DOMAIN vals : Click(el, handler)
  \/ Destroy

Spec == Init /\ [][Next]_vars

\* ------------------------------------------------------------------------
\* Reading the log of the last operation
\* ------------------------------------------------------------------------
Indices(ev) == {k \in 1..Len(log) : log[k].ev = ev}

\* the calls of update(changed) that found the guard clear / set
ClearNotifies == {k \in Indices("notify") : ~log[k].flag}
HeldNotifies == {k \in Indices("notify") : log[k].flag}

\* the sweep an event belongs to: the last guard-clear call of update before it
SweepOf(k) == CHOOSE s \in ClearNotifies : s <= k /\ \A t \in ClearNotifies : t <= k => t <= s
InSweep(k) == \E s \in ClearNotifies : s <= k

\* the calls of lifecycle.update of the sweep that starts at s
PatchesOf(s) == {j \in Indices("patch") : SweepOf(j) = s}

\* a mutation the rewrite pass instrumented: `(x++, update(["x"]))`
InstrumentedMutations ==
  {k \in Indices("mutate") :
     /\ k < Len(log)
     /\ log[k + 1].ev = "notify"
     /\ log[k + 1].names = log[k].names}

\* the bindings of the interpolations {x} of the template
BindingsOf(x) ==
  {P.create[k].var : k \in {j \in 1..Len(P.create) :
     /\ P.create[j].op = "createTextNode"
     /\ ~P.create[j].literal
     /\ P.create[j].expression = Id(x)}}

\* the value an expression has in the current state
ValueNow(e) == Eval(P, State, e).v

\* the nodes that are (transitively) under the mount target
RECURSIVE UnderTarget(_, _)
UnderTarget(x, fuel) ==
  IF fuel = 0 \/ x \notin DOMAIN parentOf THEN FALSE
  ELSE parentOf[x] = "target" \/ UnderTarget(parentOf[x], fuel - 1)

Attached == {x \in DOMAIN parentOf : UnderTarget(x, Cardinality(DOMAIN parentOf))}

\* the source of the component the instance was compiled from
Source == Components[comp]

\* the names update(changed) was called with from index s up to (not
\* including) index j of the log, in order
RECURSIVE NotifiedBetween(_, _)
NotifiedBetween(s, j) ==
  IF s >= j THEN <<>>
  ELSE (IF log[s].ev = "notify" THEN log[s].names ELSE <<>>) \o NotifiedBetween(s + 1, j)

\* the `$:` block a "block" event of the log stands for: the blocks of one
\* sweep are logged in the order of the recomputation routine
BlocksOf(s) == {k \in Indices("block") : SweepOf(k) = s}
BlockAt(k) == P.reactiveDeclarations[Cardinality({b \in BlocksOf(SweepOf(k)) : b <= k})]

\* ------------------------------------------------------------------------
\* Claims about the emitted runtime
\* ------------------------------------------------------------------------

\* C1: when one handler run that starts with the guard clear performs two or
\* more instrumented mutations, lifecycle.update is invoked exactly once for
\* the burst, and only after all of the mutations.
C1_OnePatchPerBurst ==
  (/\ lastOp[1] = "click"
   /\ thrown = ""
   /\ Cardinality(InstrumentedMutations) >= 2
   /\ \A k \in Indices("notify") : (\A t \in Indices("notify") : k <= t) => ~log[k].flag)
  => /\ Cardinality(Indices("patch")) = 1
     /\ \A m \in InstrumentedMutations, j \in Indices("patch") : m < j

\* C2: in every sweep the recomputation routine has run through all of its
\* blocks before the one call of lifecycle.update; every block that found a
\* dependency in the pending collection when it was reached (the names added
\* by earlier blocks included) has executed its body and appended its
\* assignee; and lifecycle.update receives everything collected so far.
C2_DerivedBeforePatch ==
  \A j \in Indices("patch") :
    /\ PatchesOf(SweepOf(j)) = {j}
    /\ \A k \in BlocksOf(SweepOf(j)) : k < j
    /\ Cardinality(BlocksOf(SweepOf(j))) = Len(P.reactiveDeclarations)
    /\ \A k \in BlocksOf(SweepOf(j)) :
         DependencyChanged(BlockAt(k).dependencies, log[k].pending)
         => /\ log[k].flag
            /\ \E m \in Indices("mutate"), n \in HeldNotifies :
                 /\ k < m /\ m < n /\ n < j
                 /\ log[m].names = BlockAt(k).assignees
                 /\ log[n].names = BlockAt(k).assignees
            /\ \A a \in Range(BlockAt(k).assignees) : includes(log[j].names, a)
    /\ log[j].names = NotifiedBetween(SweepOf(j), j)

C2_Witness ==
  /\ comp = 6
  /\ lastOp[1] = "click"
  /\ \E j \in Indices("patch") : log[j].names = <<"a", "b", "c">>
  /\ data["txt_6"] = "3"

\* C3: with a root-scope counter x, a button whose handler is x++ and an
\* interpolation {x}: each click causes exactly one call of lifecycle.update,
\* its change set contains x, and afterwards the text node of {x} shows the
\* current value of x ("0" after create, "1" after the first click).
C3_ClickPatchesCounter ==
  /\ \A x \in DOMAIN vals :
       (/\ lastOp[1] = "click"
        /\ thrown = ""
        /\ x \in RootDeclarations(Source.script)
        /\ FunctionNode(Source, lastOp[2]) = Arrow(<<>>, Update("++", x))
        /\ BindingsOf(x) # {})
       => /\ Cardinality(Indices("patch")) = 1
          /\ \A j \in Indices("patch") : includes(log[j].names, x)
          /\ \A t \in BindingsOf(x) : data[t] = String(vals[x])
  /\ (comp = 1 /\ lastOp[1] = "create") => data["txt_4"] = "0"
  /\ (comp = 1 /\ lastOp = <<"click", "increment">> /\ clicks = 1) => data["txt_4"] = "1"

C3_Witness ==
  /\ comp = 1
  /\ lastOp = <<"click", "increment">>
  /\ clicks = 1
  /\ Cardinality(Indices("patch")) = 1
  /\ data["txt_4"] = "1"

\* C4: whenever a handler mutates a root-scope variable that a derived
\* statement lists as a dependency, the statement's variable is recomputed
\* and the text node of its interpolation shows the new value.
C4_DependencyMutationRecomputes ==
  (lastOp[1] = "click" /\ thrown = "")
  => \A k \in 1..Len(P.reactiveDeclarations) :
       (\E m \in Indices("mutate") :
          log[m].flag /\ log[m].names[1] \in Range(P.reactiveDeclarations[k].dependencies))
       => \A t \in BindingsOf(P.reactiveDeclarations[k].assignees[1]) :
            data[t] = String(ValueNow(P.reactiveDeclarations[k].node.expression.right))

\* C5: the first create renders the interpolation of every derived statement
\* with the value computed from the initial values of its dependencies,
\* never with an unassigned value.
C5_InitialDerivedValues ==
  (lastOp[1] = "create" /\ thrown = "")
  => \A k \in 1..Len(P.reactiveDeclarations) :
       /\ vals[P.reactiveDeclarations[k].assignees[1]] # Undefined
       /\ \A t \in BindingsOf(P.reactiveDeclarations[k].assignees[1]) :
            data[t] = String(ValueNow(P.reactiveDeclarations[k].node.expression.right))

\* C6: create(target) followed by destroy() completes without error, leaves
\* no node built by create under the mount target and no listener registered.
C6_DestroyDetachesAll ==
  lastOp[1] = "destroy" => (thrown = "" /\ Attached = {} /\ listeners = {})

\* the update instructions that read x have all tested the change set at a
\* moment after log index k when it contained x
ExaminedAfter(x, k) ==
  \A u \in 1..Len(P.update) :
    includes(P.update[u].names, x)
    => \E e \in Indices("instr") :
         /\ e > k
         /\ SweepOf(e) = SweepOf(k)
         /\ log[e].names = <<P.update[u].var>>
         /\ includes(log[e].pending, x)

\* C10: every name passed to update while the guard is set is in the change
\* set when the patch call of the sweep that holds the guard examines it for
\* the instructions reading that name, and the pending collection is cleared
\* only of names the patch call has examined.
C10_NoNotificationLost ==
  /\ \A k \in HeldNotifies :
       (InSweep(k) /\ PatchesOf(SweepOf(k)) # {})
       => \A x \in Range(log[k].names) : ExaminedAfter(x, k)
  /\ \A c \in Indices("clear") :
       PatchesOf(SweepOf(c)) # {}
       => \A x \in Range(log[c].pending) : ExaminedAfter(x, SweepOf(c))

\* the end of the sweep that starts at s: its "clear" event
EndsOf(s) == {c \in Indices("clear") : SweepOf(c) = s}

\* C11: a call of update that finds the guard set only appends its names: it
\* starts no recomputation pass and no patch. So every sweep passes each
\* derived block once, calls lifecycle.update at most once, no sweep starts
\* inside another, and every sweep that raised no error has ended, also when
\* derived statements depend on each other in a cycle or the patch calls
\* update.
C11_HeldNotifyOnlyAppends ==
  /\ \A k \in HeldNotifies :
       log[k].pending = SubSeq(log[k].pending, 1, Len(log[k].pending) - Len(log[k].names))
                          \o log[k].names
  /\ \A s \in ClearNotifies :
       /\ Cardinality(BlocksOf(s)) <= Len(P.reactiveDeclarations)
       /\ Cardinality(PatchesOf(s)) <= 1
       /\ Cardinality(EndsOf(s)) <= 1
       /\ thrown = "" => /\ Cardinality(EndsOf(s)) = 1
                         /\ Cardinality(BlocksOf(s)) = Len(P.reactiveDeclarations)
       /\ \A t \in ClearNotifies : t > s => \E c \in EndsOf(s) : c < t

C11_Witness ==
  /\ comp = 8
  /\ lastOp = <<"click", "inc">>
  /\ thrown = ""
  /\ Cardinality(HeldNotifies) = 1
  /\ Cardinality(Indices("patch")) = 1
  /\ \E j \in Indices("patch") : log[j].names = <<"a", "x">>

\* C13: between the host's operations no call of update is running, and the
\* runtime is idle: the guard is clear and the pending collection is empty,
\* also after an operation in which a derived statement or the patch raised
\* an error.
C13_IdleBetweenCalls == ~updateCalled /\ collectChanges = <<>>

\* C14: the names the emitted factory declares (the node bindings, the
\* assignees of the derived statements, the root declarations of the script)
\* are pairwise distinct, so the factory can be called.
C14_DeclaredNamesDistinct ==
  phase # "module" => (Distinct(DeclaredNames(P)) /\ thrown # "SyntaxError")

\* ------------------------------------------------------------------------
\* parse(content): the source text to { script, html }
\* ------------------------------------------------------------------------
MaxContentLen == 3

\* the characters the enumerated source texts are made of
ParseAlphabet == {"<", ">", "/", "a", "{", "}"}

RECURSIVE Texts(_)
Texts(n) ==
  IF n = 0 THEN {<<>>}
  ELSE Texts(n - 1) \cup {Append(t, c) : t \in {u \in Texts(n - 1) : Len(u) = n - 1}, c \in ParseAlphabet}

\* component sources: a script, elements with attributes, interpolations,
\* and elements left open
Samples ==
  {<<"<", "s", "c", "r", "i", "p", "t", ">", "a", "<", "/", "s", "c", "r", "i", "p", "t", ">", "<", "b", " ", "c", "=", "{", "d", "}", ">", "x", "<", "/", "b", ">", "{", "e", "}">>,
   <<"<", "a", ">", " ", "x">>,
   <<"<", "a", ">", "<", "b", ">", "<", "/", "a", ">">>,
   <<"<", "a", ">", "<", "s", "c", "r", "i", "p", "t", ">", "x", "<", "/", "s", "c", "r", "i", "p", "t", ">", "<", "/", "a", ">">>,
   <<"<", "s", "c", "r", "i", "p", "t", ">", "a">>,
   <<"<", "a", " ", "b", "=", "{", "c", "}", " ", "d", "=", "{", "e", "}", ">", "{", "f", "}", "<", "/", "a", ">">>,
   <<"<", "a", ">", "{", "b", "}">>,
   <<"<", "a", " ", "o", "n", ":", "c", "l", "i", "c", "k", "=", "{", "b", "}", ">", " ", "<", "/", "a", ">">>}

Contents == Texts(MaxContentLen) \cup Samples

LowerCase == {"a", "b", "c", "d", "e", "f", "i", "k", "l", "n", "o", "p", "r", "s", "t", "x"}
Whitespace == {" "}
Chars == LowerCase \cup Whitespace \cup {"<", ">", "/", "{", "}", "=", ":"}

RECURSIVE Join(_)
Join(cs) == IF cs = <<>> THEN "" ELSE Head(cs) \o Join(Tail(cs))

Min(a, b) == IF a <= b THEN a ELSE b

\* String.prototype.slice(from, to) for 0 <= from
slice(c, from, to) == SubSeq(c, from + 1, Min(to, Len(c)))

\* content.slice(i, i + str.length) === str
match(c, j, str) == slice(c, j, j + Len(str)) = str

\* the position readWhileMatching(regex) stops at; class is the set of
\* characters the regex accepts
RECURSIVE readWhileMatching(_, _, _)
readWhileMatching(c, j, class) ==
  IF j < Len(c) /\ c[j + 1] \in class THEN readWhileMatching(c, j + 1, class) ELSE j

skipWhitespace(c, j) == readWhileMatching(c, j, Whitespace)

\* String.prototype.indexOf(str, from): -1 when str does not occur
RECURSIVE indexOf(_, _, _)
indexOf(c, str, from) ==
  IF from + Len(str) > Len(c) THEN -1
  ELSE IF match(c, from, str) THEN from
  ELSE indexOf(c, str, from + 1)

\* String.prototype.trim() !== ''
NonBlank(cs) == \E k \in 1..Len(cs) : cs[k] \notin Whitespace

ParseError(str) == "Parse error: expecting \"" \o Join(str) \o "\""

\* the result of a parsing function: the node, the position after it, the
\* message of the error it threw
Parsed(node, j) == [node |-> node, i |-> j, error |-> ""]
Failed(j, msg) == [node |-> Undefined, i |-> j, error |-> msg]

\* eat(str) at position j after node was read
eat(node, c, j, str) ==
  IF match(c, j, str) THEN Parsed(node, j + Len(str)) ELSE Failed(j, ParseError(str))

\* acorn.parseExpressionAt(content, i): the expressions of the source texts
\* are single identifiers
ReadIdentifierTo(c, j, end) ==
  IF end > j THEN Parsed(Id(Join(slice(c, j, end))), end) ELSE Failed(j, "SyntaxError")

parseJavaScript(c, j) ==
  ReadIdentifierTo(c, skipWhitespace(c, j), readWhileMatching(c, skipWhitespace(c, j), LowerCase))

\* an attribute name as the generator reads it: the 'on:' prefix and the rest
AttributeName(cs) ==
  IF match(cs, 0, <<"o", "n", ":">>)
  THEN <<"on:", Join(slice(cs, 3, Len(cs)))>>
  ELSE <<"", Join(cs)>>

CloseBrace(name, js, c) ==
  IF js.error # "" THEN js
  ELSE eat(Attribute(AttributeName(name), js.node), c, js.i, <<"}">>)

AttributeValue(c, j, end) ==
  IF match(c, end, <<"=", "{">>)
  THEN CloseBrace(slice(c, j, end), parseJavaScript(c, end + 2), c)
  ELSE Failed(end, ParseError(<<"=", "{">>))

parseAttribute(c, j) == AttributeValue(c, j, readWhileMatching(c, j, Chars \ {"="}))

RECURSIVE parseAttributeList(_, _, _)
NextAttribute(c, attributes, a) ==
  IF a.error # "" THEN a
  ELSE parseAttributeList(c, skipWhitespace(c, a.i), Append(attributes, a.node))

\* the while loop of parseAttributeList, entered at j after skipWhitespace()
parseAttributeList(c, j, attributes) ==
  IF match(c, j, <<">">>) THEN Parsed(attributes, j)
  ELSE NextAttribute(c, attributes, parseAttribute(c, j))

\* acorn.parse(code): a script is JavaScript, it holds no markup
AcornAccepts(code) == \A k \in 1..Len(code) : code[k] \notin {"<", ">", "{", "}"}

ScriptTag == <<"<", "s", "c", "r", "i", "p", "t", ">">>
ScriptEndTag == <<"<", "/", "s", "c", "r", "i", "p", "t", ">">>

\* parseScript() from after eat('<script>'): endIndex is what indexOf found
ScriptBody(c, startIndex, endIndex) ==
  IF endIndex = -1
  THEN (IF AcornAccepts(slice(c, startIndex, Len(c) - 1))
        THEN Failed(-1, ParseError(ScriptEndTag))
        ELSE Failed(startIndex, "SyntaxError"))
  ELSE IF AcornAccepts(slice(c, startIndex, endIndex))
  THEN Parsed(Join(slice(c, startIndex, endIndex)), endIndex + Len(ScriptEndTag))
  ELSE Failed(startIndex, "SyntaxError")

\* parseElement() from after eat('<') up to eat('>')
OpeningTag(c, nameEnd, attrs) ==
  IF attrs.error # "" THEN attrs ELSE eat(attrs.node, c, attrs.i, <<">">>)

EndTag(tagName) == <<"<", "/">> \o tagName \o <<">">>

\* the parseFragments call of an element's children
Frame0 == [endTag |-> <<>>, name |-> "", attributes |-> <<>>, fragments |-> <<>>, start |-> 0]
Children0(tagName, attributes, j) ==
  [endTag |-> EndTag(tagName), name |-> Join(tagName), attributes |-> attributes,
   fragments |-> <<>>, start |-> j]

Awaiting == stack[Len(stack)]

\* the condition passed to the innermost parseFragments call
condition ==
  IF Len(stack) = 1 THEN i < Len(content) ELSE ~match(content, i, Awaiting.endTag)

\* fragments.push(fragment) in the innermost call
Push(fragment) == [stack EXCEPT ![Len(stack)].fragments = Append(@, fragment)]

\* a parsing function threw: parse ends with the error
Threw(r) ==
  /\ ppc' = "threw"
  /\ perror' = r.error
  /\ i' = r.i
  /\ UNCHANGED <<content, stack, document>>

InitParse ==
  /\ content \in Contents
  /\ i = 0
  /\ stack = <<Frame0>>
  /\ ppc = "fragments"
  /\ perror = ""
  /\ document = [script |-> Undefined, html |-> Undefined]
  /\ NoRuntime /\ NoSort /\ NoGen /\ NoRewrite

\* while (condition()) ends: parseFragments returns its fragments, to parse
\* (ast.html) or to parseElement (children, then eat(endTag))
ExitFragments ==
  /\ ppc = "fragments"
  /\ ~condition
  /\ IF Len(stack) = 1
     THEN /\ document' = [document EXCEPT !.html = Awaiting.fragments]
          /\ ppc' = "returned"
          /\ UNCHANGED <<i, stack>>
     ELSE /\ i' = i + Len(Awaiting.endTag)
          /\ stack' = [SubSeq(stack, 1, Len(stack) - 1) EXCEPT
                         ![Len(stack) - 1].fragments =
                            Append(@, Element(Awaiting.name, Awaiting.attributes,
                                              Awaiting.fragments))]
          /\ UNCHANGED <<ppc, document>>
  /\ UNCHANGED <<content, perror, rtVars, stVars, cgVars, rwVars>>

ParseScriptDone(r) ==
  IF r.error # "" THEN Threw(r)
  ELSE /\ document' = [document EXCEPT !.script = r.node]
       /\ i' = r.i
       /\ ppc' = "fragment"
       /\ UNCHANGED <<content, stack, perror>>

\* parseFragment() starts with parseScript(), which returns nothing: the
\* other parsing functions are tried after it at the position it left
ParseScript ==
  /\ ppc = "fragments"
  /\ condition
  /\ IF match(content, i, ScriptTag)
     THEN ParseScriptDone(ScriptBody(content, i + Len(ScriptTag),
                                     indexOf(content, ScriptEndTag, i + Len(ScriptTag))))
     ELSE ppc' = "fragment" /\ UNCHANGED <<content, i, stack, perror, document>>
  /\ UNCHANGED <<rtVars, stVars, cgVars, rwVars>>

ParseElementDone(nameEnd, r) ==
  IF r.error # "" THEN Threw(r)
  ELSE /\ stack' = Append(stack, Children0(slice(content, i + 1, nameEnd), r.node, r.i))
       /\ i' = r.i
       /\ ppc' = "fragments"
       /\ UNCHANGED <<content, perror, document>>

ParseElementFrom(nameEnd) ==
  ParseElementDone(nameEnd,
    OpeningTag(content, nameEnd,
               parseAttributeList(content, skipWhitespace(content, nameEnd), <<>>)))

ParseElement ==
  /\ ppc = "fragment"
  /\ match(content, i, <<"<">>)
  /\ ParseElementFrom(readWhileMatching(content, i + 1, LowerCase))
  /\ UNCHANGED <<rtVars, stVars, cgVars, rwVars>>

ParseExpressionDone(r) ==
  IF r.error # "" THEN Threw(r)
  ELSE /\ stack' = Push(Expression(r.node))
       /\ i' = r.i
       /\ ppc' = "fragments"
       /\ UNCHANGED <<content, perror, document>>

ExpressionNode(js, c) == IF js.error # "" THEN js ELSE eat(js.node, c, js.i, <<"}">>)

ParseExpression ==
  /\ ppc = "fragment"
  /\ ~match(content, i, <<"<">>)
  /\ match(content, i, <<"{">>)
  /\ ParseExpressionDone(ExpressionNode(parseJavaScript(content, i + 1), content))
  /\ UNCHANGED <<rtVars, stVars, cgVars, rwVars>>

\* parseText() ends the iteration of the while loop. An iteration that read
\* nothing, with the condition still true, leaves content, i and the
\* fragments as the iteration found them: the loop repeats it without end.
ParseTextTo(end) ==
  /\ i' = end
  /\ stack' = IF NonBlank(slice(content, i, end))
              THEN Push(Text(Join(slice(content, i, end)))) ELSE stack
  /\ ppc' = IF end = i /\ end >= Len(content) /\ Len(stack) > 1
               /\ ~match(content, end, Awaiting.endTag)
            THEN "looping" ELSE "fragments"
  /\ UNCHANGED <<content, perror, document>>

ParseText ==
  /\ ppc = "fragment"
  /\ ~match(content, i, <<"<">>)
  /\ ~match(content, i, <<"{">>)
  /\ ParseTextTo(readWhileMatching(content, i, Chars \ {"<", "{"}))
  /\ UNCHANGED <<rtVars, stVars, cgVars, rwVars>>

NextParse ==
  \/ ExitFragments
  \/ ParseScript
  \/ ParseElement
  \/ ParseExpression
  \/ ParseText

SpecParse == InitParse /\ [][NextParse]_vars

\* the closing tag occurs in the source text at or after position j
OccursFrom(endTag, j) == indexOf(content, endTag, j) # -1

\* C7: when an element's opening tag is not followed by its closing tag
\* before the end of input, parse ends by raising an error: it never stays
\* in the loop of parseFragments for ever, and it never returns.
C7_UnclosedElementRaises ==
  (\E k \in 2..Len(stack) : ~OccursFrom(stack[k].endTag, stack[k].start))
  => ppc \notin {"looping", "returned"}

\* ------------------------------------------------------------------------
\* generate: the order of the derived statements
\* ------------------------------------------------------------------------
MaxDerived == 3

DerivedNames == {"a", "b", "c", "d"}

\* scripts of up to n statements `$: x = y + 1`
RECURSIVE DerivedScripts(_)
DerivedScripts(n) ==
  IF n = 0 THEN {<<>>}
  ELSE DerivedScripts(n - 1) \cup
       {Append(body, Reactive(x, Bin("+", Id(y), Lit(1)))) :
          body \in {b \in DerivedScripts(n - 1) : Len(b) = n - 1},
          x \in DerivedNames, y \in DerivedNames}

\* statement p assigns what statement q reads
Feeds(list, p, q) == \E k \in 1..Len(list[p].assignees) :
                       includes(list[q].dependencies, list[p].assignees[k])

RECURSIVE Reaches(_, _, _, _)
Reaches(list, p, q, fuel) ==
  /\ fuel > 0
  /\ \/ Feeds(list, p, q)
     \/ \E r \in 1..Len(list) : Feeds(list, p, r) /\ Reaches(list, r, q, fuel - 1)

Acyclic(list) == \A p \in 1..Len(list) : ~Reaches(list, p, p, Len(list))

DerivedLists ==
  {list \in {ReactiveDeclarations(body, 1) : body \in DerivedScripts(MaxDerived)} :
     list # <<>> /\ Acyclic(list)}

InitSort ==
  /\ rds \in DerivedLists
  /\ sortedRds = <<>>
  /\ NoRuntime /\ NoParse /\ NoGen /\ NoRewrite

\* analysis.reactiveDeclarations.sort(...)
SortDeclarations ==
  /\ sortedRds = <<>>
  /\ sortedRds' = sort(rds)
  /\ UNCHANGED <<rds, rtVars, psVars, cgVars, rwVars>>

NextSort == SortDeclarations

SpecSort == InitSort /\ [][NextSort]_vars

\* C8: after the sort, every statement whose assignee is in the dependency
\* list of another statement stands before that statement; when no statement
\* feeds another, the statements keep their source order.
C8_DependencyOrder ==
  sortedRds # <<>>
  => /\ \A p, q \in 1..Len(sortedRds) : Feeds(sortedRds, p, q) => p < q
     /\ (\A p, q \in 1..Len(rds) : ~Feeds(rds, p, q)) => sortedRds = rds

\* ------------------------------------------------------------------------
\* generate.traverse on one interpolation of the template
\* ------------------------------------------------------------------------
MaxDepth == 1

Atoms == {Id("a"), Id("b"), Lit(0)}

\* expressions of every shape, nested up to depth d
RECURSIVE TemplateExpressions(_)
TemplateExpressions(d) ==
  IF d = 0 THEN Atoms
  ELSE TemplateExpressions(d - 1)
       \cup {Bin("+", l, r) : l \in TemplateExpressions(d - 1), r \in Atoms}
       \cup {Bin("+", l, r) : l \in Atoms, r \in TemplateExpressions(d - 1)}
       \cup {Call(f, <<>>) : f \in {"a", "f"}}
       \cup {Call(f, <<e>>) : f \in {"a", "f"}, e \in TemplateExpressions(d - 1)}
       \cup {Member(e, "p") : e \in TemplateExpressions(d - 1)}
       \cup {Cond(t, c, e) : t \in TemplateExpressions(d - 1), c \in Atoms, e \in Atoms}

WillChangeSets == {<<>>, <<"a">>, <<"b">>, <<"a", "b">>, <<"b", "a">>}

InitGen ==
  /\ tplExpr \in TemplateExpressions(MaxDepth)
  /\ tplWillChange \in WillChangeSets
  /\ genUpdate = EmptyCode
  /\ NoRuntime /\ NoParse /\ NoSort /\ NoRewrite

\* traverse(fragment, 'target') for the fragment {tplExpr}
TraverseExpression ==
  /\ genUpdate = EmptyCode
  /\ genUpdate' = traverse(Expression(tplExpr), "target", EmptyCode, tplWillChange)
  /\ UNCHANGED <<tplExpr, tplWillChange, rtVars, psVars, stVars, rwVars>>

NextGen == TraverseExpression

SpecGen == InitGen /\ [][NextGen]_vars

\* the identifiers the expression refers to
Referenced(e) == {r.name : r \in Range(References(e, <<>>))}

\* C9: whatever the shape of the expression, when the identifiers it refers
\* to meet willChange, traverse emits exactly one update instruction for the
\* node, guarded by exactly the names in the intersection; when they do not,
\* it emits none.
C9_GuardIsIntersection ==
  genUpdate # EmptyCode
  => IF Referenced(tplExpr) \cap Range(tplWillChange) = {}
     THEN genUpdate.update = <<>>
     ELSE /\ Len(genUpdate.update) = 1
          /\ Range(genUpdate.update[1].names) = Referenced(tplExpr) \cap Range(tplWillChange)

\* ------------------------------------------------------------------------
\* generate: the rewrite pass on the script of one handler
\* ------------------------------------------------------------------------
\* a and c are declared at root scope, b is the assignee of a derived
\* statement (declared nowhere in the script), p is the handler's parameter
MutatedNames == {"a", "b", "c", "p"}

Mutations == {Update("++", x) : x \in MutatedNames}
               \cup {Assign(x, Lit(1)) : x \in MutatedNames}

\* one mutation, a mutation inside the right-hand side of an assignment, two
\* mutations in sequence
HandlerBodies ==
  Mutations
    \cup {Assign(x, m) : x \in MutatedNames, m \in Mutations}
    \cup {Sequence(<<m, n>>) : m \in Mutations, n \in Mutations}

UsedNames == {<<>>, <<"a">>, <<"b">>, <<"c">>, <<"a", "b">>, <<"a", "c">>,
              <<"a", "b", "c">>, <<"a", "b", "c", "p">>}

\* let a = 0; let c = 0; $: b = a + 1; const h = (p) => <body>;
\* <button on:click={h}>+</button>{..used names..}
RewriteComponent(body, used) ==
  [script |-> <<Let("a", Lit(0)), Let("c", Lit(0)),
                Reactive("b", Bin("+", Id("a"), Lit(1))),
                Let("h", Arrow(<<"p">>, body))>>,
   html |-> <<Button("h", "+")>> \o [k \in 1..Len(used) |-> Expression(Id(used[k]))]]

InitRewrite ==
  /\ rwBody \in HandlerBodies
  /\ rwUsed \in UsedNames
  /\ rwOut = <<>>
  /\ NoRuntime /\ NoParse /\ NoSort /\ NoGen

\* parse's result through analyse and generate: the script the module emits
RewritePass ==
  /\ rwOut = <<>>
  /\ rwOut' = compile(RewriteComponent(rwBody, rwUsed)).script
  /\ UNCHANGED <<rwBody, rwUsed, rtVars, psVars, stVars, cgVars>>

NextRewrite == RewritePass

SpecRewrite == InitRewrite /\ [][NextRewrite]_vars

\* the names of a mutation node that qualify for a notification: owned by the
\* root scope or free in the script, and read by the template
Qualifying(node, scopes, rootDecls, used) ==
  SelectSeq(TargetNames(node), LAMBDA name :
    /\ find_owner(scopes, rootDecls, name) \in {"root", "null"}
    /\ name \in used)

\* the script with every qualifying mutation node, nested ones included,
\* replaced by (mutation, update([names]))
RECURSIVE Instrumented(_, _, _, _)
InstrumentedInside(n, sc, rootDecls, used) ==
  CASE n.type = "AssignmentExpression" ->
         [n EXCEPT !.right = Instrumented(n.right, sc, rootDecls, used)]
    [] n.type = "SequenceExpression" ->
         [n EXCEPT !.expressions =
            [k \in 1..Len(n.expressions) |-> Instrumented(n.expressions[k], sc, rootDecls, used)]]
    [] n.type = "ArrowFunctionExpression" ->
         [n EXCEPT !.body = Instrumented(n.body, sc, rootDecls, used)]
    [] n.type = "VariableDeclaration" ->
         [n EXCEPT !.init = Instrumented(n.init, sc, rootDecls, used)]
    [] OTHER -> n

InstrumentedNode(n, sc, rootDecls, used) ==
  IF /\ n.type \in {"UpdateExpression", "AssignmentExpression"}
     /\ Qualifying(n, sc, rootDecls, used) # <<>>
  THEN Sequence(<<InstrumentedInside(n, sc, rootDecls, used),
                  UpdateCall(Qualifying(n, sc, rootDecls, used))>>)
  ELSE InstrumentedInside(n, sc, rootDecls, used)

Instrumented(n, scopes, rootDecls, used) ==
  InstrumentedNode(n, EnterScope(scopes, n), rootDecls, used)

\* C12: the rewrite pass replaces every mutation node of the script, nested
\* ones included, whose target is owned by the root scope or is free in the
\* script and is read by the template, by the sequence (mutation,
\* update([qualifying names])), and leaves every other node as it is.
C12_EveryMutationInstrumented ==
  rwOut # <<>>
  => rwOut = [k \in 1..3 |->
                Instrumented(WithoutReactive(RewriteComponent(rwBody, rwUsed).script)[k],
                             <<>>, {"a", "c", "h"}, Range(rwUsed) \cup {"h"})]

====
